---- MODULE Spec2Model ----
(***************************************************************************)
(* A model of YTTranscribe: the Streamlit handler main() of src/main.py    *)
(* (the "Generate Transcript" button and the session state it writes) and  *)
(* the class YouTubeTranscriptAgent with the helpers format_time and       *)
(* create_youtube_embed_url of src/utils.py.                               *)
(*                                                                         *)
(* Strings are sequences of one-character strings, so that formatting,     *)
(* splitting, trimming and matching are computed and not assumed.  A URL   *)
(* is a sequence of tokens: the two literals the code looks for            *)
(* ("youtube.com/watch", "youtu.be/"), the separators it splits on         *)
(* ("v=", "&", "?") and other text.                                        *)
(***************************************************************************)
EXTENDS Integers, Sequences, FiniteSets, TLC

VARIABLES
    ss_agent,                \* st.session_state.agent
    ss_transcript_generated, \* st.session_state.transcript_generated
    ss_video_info,           \* st.session_state.video_info
    run,                     \* the last "Generate Transcript" click: url, outcome, external calls
    agent,                   \* a YouTubeTranscriptAgent used through its methods
    res,                     \* the last method call on agent: arguments, return value, st.error
    fmt,                     \* the last format_time call
    emb                      \* the last create_youtube_embed_url call

vars == <<ss_agent, ss_transcript_generated, ss_video_info, run, agent, res, fmt, emb>>

session_vars == <<ss_agent, ss_transcript_generated, ss_video_info, run>>
store_vars == <<agent, res>>

----------------------------------------------------------------------------
(* Bounds of the model.                                                    *)

MaxSegs == 2
MaxQueryLen == 2
MaxK == 3
MaxUrlLen == 4
MaxHours == 26

(* Python's timedelta keeps days apart from seconds: 86400 seconds a day.  *)
SecondsPerDay == 86400

----------------------------------------------------------------------------
(* Sequences as strings.                                                   *)

Min(S) == CHOOSE x \in S : \A y \in S : x <= y

SeqsUpTo(S, n) == UNION {[1..m -> S] : m \in 0..n}

(* t in s *)
Contains(s, t) ==
    \E i \in 1..(Len(s) - Len(t) + 1) : SubSeq(s, i, i + Len(t) - 1) = t

FirstIndex(s, sep) ==
    LET I == {i \in 1..(Len(s) - Len(sep) + 1) : SubSeq(s, i, i + Len(sep) - 1) = sep}
    IN  IF I = {} THEN 0 ELSE Min(I)

(* s.split(sep): the pieces between the occurrences of sep, left to right. *)
RECURSIVE Split(_, _)
Split(s, sep) ==
    LET i == FirstIndex(s, sep)
    IN  IF i = 0
        THEN <<s>>
        ELSE <<SubSeq(s, 1, i - 1)>> \o Split(SubSeq(s, i + Len(sep), Len(s)), sep)

(* sep.join(parts) *)
RECURSIVE Join(_, _)
Join(parts, sep) ==
    IF parts = <<>> THEN <<>>
    ELSE IF Len(parts) = 1 THEN parts[1]
    ELSE parts[1] \o sep \o Join(Tail(parts), sep)

RECURSIVE LStrip(_)
LStrip(s) == IF s # <<>> /\ Head(s) = " " THEN LStrip(Tail(s)) ELSE s

RECURSIVE RStrip(_)
RStrip(s) ==
    IF s # <<>> /\ s[Len(s)] = " " THEN RStrip(SubSeq(s, 1, Len(s) - 1)) ELSE s

(* s.strip() *)
Strip(s) == RStrip(LStrip(s))

DigitChars == <<"0", "1", "2", "3", "4", "5", "6", "7", "8", "9">>

(* "%d" % n, n >= 0 *)
RECURSIVE Digits(_)
Digits(n) ==
    IF n < 10 THEN <<DigitChars[n + 1]>>
    ELSE Digits(n \div 10) \o <<DigitChars[(n % 10) + 1]>>

(* f"{n:02d}", n >= 0: at least two digits *)
Pad2(n) == IF n < 10 THEN <<"0">> \o Digits(n) ELSE Digits(n)

Lower(c) == IF c = "A" THEN "a" ELSE IF c = "B" THEN "b" ELSE c

----------------------------------------------------------------------------
(* utils.py: format_time and str(timedelta).                               *)

(* timedelta(seconds=n).days and .seconds for an integer n >= 0 *)
td_days(n) == n \div SecondsPerDay
td_seconds(n) == n % SecondsPerDay

(* format_time(seconds) *)
format_time(seconds) ==
    LET s == td_seconds(seconds)
    IN  IF s < 3600
        THEN Pad2(s \div 60) \o <<":">> \o Pad2(s % 60)
        ELSE LET hours == s \div 3600
                 remainder == s % 3600
             IN  Pad2(hours) \o <<":">> \o Pad2(remainder \div 60)
                     \o <<":">> \o Pad2(remainder % 60)

(* str(timedelta(seconds=n)): "H:MM:SS", after "N day, " or "N days, " *)
str_timedelta(n) ==
    LET s == td_seconds(n)
        d == td_days(n)
        hms == Digits(s \div 3600) \o <<":">> \o Pad2((s \div 60) % 60)
                   \o <<":">> \o Pad2(s % 60)
    IN  IF d = 0 THEN hms
        ELSE Digits(d) \o <<" ", "d", "a", "y">>
                 \o (IF d # 1 THEN <<"s">> ELSE <<>>) \o <<",", " ">> \o hms

----------------------------------------------------------------------------
(* utils.py: the video id of a URL.                                        *)

WATCH == "youtube.com/watch"
SHORT == "youtu.be/"

UrlTokens == {WATCH, SHORT, "v=", "&", "?", "ABC"}

Urls == SeqsUpTo(UrlTokens, MaxUrlLen)

(* The result of an expression that may raise. *)
Raised(e) == [raised |-> e, isNone |-> FALSE, value |-> <<>>]
Value(v) == [raised |-> "", isNone |-> FALSE, value |-> v]
None == [raised |-> "", isNone |-> TRUE, value |-> <<>>]

(* youtube_url.split("v=")[1].split("&")[0] *)
watch_id(youtube_url) ==
    LET p == Split(youtube_url, <<"v=">>)
    IN  IF Len(p) < 2 THEN Raised("IndexError") ELSE Value(Split(p[2], <<"&">>)[1])

(* youtube_url.split("youtu.be/")[1].split("?")[0] *)
short_id(youtube_url) ==
    LET p == Split(youtube_url, <<SHORT>>)
    IN  IF Len(p) < 2 THEN Raised("IndexError") ELSE Value(Split(p[2], <<"?">>)[1])

(* create_youtube_embed_url(youtube_url) *)
create_youtube_embed_url(youtube_url) ==
    LET video_id ==
            IF Contains(youtube_url, <<WATCH>>) THEN watch_id(youtube_url)
            ELSE IF Contains(youtube_url, <<SHORT>>) THEN short_id(youtube_url)
            ELSE None
    IN  IF video_id.raised # "" THEN video_id
        ELSE IF ~video_id.isNone /\ video_id.value # <<>>
        THEN Value(<<"https://www.youtube.com/embed/">> \o video_id.value)
        ELSE None

(* download_audio, the first lines: the name of the audio file *)
download_video_id(youtube_url) ==
    IF Contains(youtube_url, <<WATCH>>) THEN watch_id(youtube_url)
    ELSE IF Contains(youtube_url, <<SHORT>>) THEN short_id(youtube_url)
    ELSE Value(<<"video">>)

----------------------------------------------------------------------------
(* utils.py: YouTubeTranscriptAgent.                                       *)

ModelSizes == {"base", "large"}

(* self.video_info = {} *)
EmptyDict == [set |-> FALSE, title |-> "", length |-> 0, url |-> <<>>]

(* self.transcript_df = None, and pd.DataFrame(data): its columns are the   *)
(* keys of the rows, so a frame built from no row has no column.           *)
NoDataFrame == [isNone |-> TRUE, columns |-> {}, rows |-> <<>>]

DataFrame(data) ==
    [isNone |-> FALSE,
     columns |-> IF data = <<>> THEN {} ELSE {"start", "end", "start_str", "text"},
     rows |-> data]

(* st.session_state.agent = None *)
NoAgent ==
    [isNone |-> TRUE, model_size |-> "", transcript_df |-> NoDataFrame,
     video_info |-> EmptyDict]

(* YouTubeTranscriptAgent.__init__ *)
new_agent(model_size) ==
    [isNone |-> FALSE, model_size |-> model_size, transcript_df |-> NoDataFrame,
     video_info |-> EmptyDict]

(* Whisper's segments: start and end in tenths of a second (floats in the   *)
(* code), text as the model decodes it, with its leading space.            *)
RawTimes ==
    {<<27, 50>>, <<36005, 36100>>, <<864000, 864010>>, <<1728599, 1728610>>}

RawTexts ==
    { <<" ", "a", "b", ".">>,
      <<" ", "A", ".", " ", "b", " ">> }

RawSegments == {[start |-> t[1], end |-> t[2], text |-> x] : t \in RawTimes, x \in RawTexts}

(* The engine's segments come in playback order. *)
InPlaybackOrder(segs) ==
    \A i \in 1..(Len(segs) - 1) : segs[i].start <= segs[i + 1].start

Transcriptions == {segs \in SeqsUpTo(RawSegments, MaxSegs) : InPlaybackOrder(segs)}

(* int(segment['start']) *)
int_seconds(tenths) == tenths \div 10

(* transcribe_audio with a fault: the start rounded to the nearest second   *)
(* and not cut to whole seconds                                            *)
transcript_row_rounded(segment) ==
    [start |-> segment.start, end |-> segment.end,
     start_str |-> str_timedelta((segment.start + 5) \div 10),
     text |-> Strip(segment.text)]

(* transcribe_audio: one row of data *)
transcript_row(segment) ==
    [start |-> segment.start, end |-> segment.end,
     start_str |-> str_timedelta(int_seconds(segment.start)),
     text |-> Strip(segment.text)]

(* transcribe_audio: the loop over result['segments'] *)
transcript_data(segments) == [i \in 1..Len(segments) |-> transcript_row(segments[i])]

(* transcribe_audio(audio_path), the model's transcribe having returned *)
transcribe_audio(self, segments) ==
    [self EXCEPT !.transcript_df = DataFrame(transcript_data(segments))]

(* re.search(re.compile(query, re.IGNORECASE), text): the characters of the *)
(* query match themselves in either case, "." matches any character.       *)
re_match_at(query, text, i) ==
    \A j \in 1..Len(query) :
        query[j] = "." \/ Lower(query[j]) = Lower(text[i + j - 1])

re_search(query, text) ==
    \E i \in 1..(Len(text) - Len(query) + 1) : re_match_at(query, text, i)

QueryChars == {"a", "B", "."}
Queries == SeqsUpTo(QueryChars, MaxQueryLen)

(* What a method returns: None, a DataFrame, a list, a str, or it raises. *)
Ret(kind, rows, text) == [kind |-> kind, rows |-> rows, text |-> text]

(* search_transcript(query); error: st.error was called *)
search_transcript(self, query) ==
    IF self.transcript_df.isNone
    THEN [ret |-> Ret("None", <<>>, <<>>), error |-> TRUE]
    ELSE IF "text" \notin self.transcript_df.columns
    THEN [ret |-> Ret("KeyError", <<>>, <<>>), error |-> FALSE]
    ELSE [ret |-> Ret("DataFrame",
                      SelectSeq(self.transcript_df.rows,
                                LAMBDA row : re_search(query, row.text)),
                      <<>>),
          error |-> FALSE]

(* get_timestamps(query) *)
get_timestamps(self, query) ==
    LET m == search_transcript(self, query)
    IN  IF m.ret.kind = "KeyError" THEN m
        ELSE IF m.ret.kind = "None" \/ Len(m.ret.rows) = 0
        THEN [ret |-> Ret("list", <<>>, <<>>), error |-> m.error]
        ELSE [ret |-> Ret("list",
                          [i \in 1..Len(m.ret.rows) |->
                              <<m.ret.rows[i].start_str, m.ret.rows[i].text>>],
                          <<>>),
              error |-> m.error]

(* nltk's sent_tokenize, as far as the texts here need it: a sentence ends  *)
(* at a full stop followed by a space or by the end of the text.           *)
SentenceEnd(t) ==
    LET I == {i \in 1..Len(t) : t[i] = "." /\ (i = Len(t) \/ t[i + 1] = " ")}
    IN  IF I = {} THEN 0 ELSE Min(I)

RECURSIVE sent_tokenize(_)
sent_tokenize(text) ==
    LET t == Strip(text)
        i == SentenceEnd(t)
    IN  IF t = <<>> THEN <<>>
        ELSE IF i = 0 THEN <<t>>
        ELSE <<SubSeq(t, 1, i)>> \o sent_tokenize(SubSeq(t, i + 1, Len(t)))

(* self.transcript_df['text'].tolist() *)
text_list(df) == [i \in 1..Len(df.rows) |-> df.rows[i].text]

(* summarize_transcript(num_sentences) *)
summarize_transcript(self, num_sentences) ==
    IF self.transcript_df.isNone
    THEN [ret |-> Ret("None", <<>>, <<>>), error |-> TRUE]
    ELSE IF "text" \notin self.transcript_df.columns
    THEN [ret |-> Ret("KeyError", <<>>, <<>>), error |-> FALSE]
    ELSE LET full_text == Join(text_list(self.transcript_df), <<" ">>)
             sentences == sent_tokenize(full_text)
             summary ==
                 IF num_sentences >= Len(sentences)
                 THEN Join(sentences, <<" ">>)
                 ELSE Join(SubSeq(sentences, 1, num_sentences), <<" ">>)
         IN  [ret |-> Ret("str", <<>>, summary), error |-> FALSE]

(* get_full_transcript: f"[{row['start_str']}] {row['text']}\n" *)
transcript_line(row) == <<"[">> \o row.start_str \o <<"]", " ">> \o row.text \o <<"\n">>

RECURSIVE transcript_text(_)
transcript_text(rows) ==
    IF rows = <<>> THEN <<>> ELSE transcript_line(Head(rows)) \o transcript_text(Tail(rows))

NoTranscriptMessage == <<"No transcript available.">>

(* get_full_transcript with a fault: the loop stops one row early *)
get_full_transcript_one_short(self) ==
    IF self.transcript_df.isNone
    THEN [ret |-> Ret("str", <<>>, NoTranscriptMessage), error |-> FALSE]
    ELSE LET rows == self.transcript_df.rows
         IN  [ret |-> Ret("str", <<>>,
                          transcript_text(SubSeq(rows, 1, Len(rows) - 1))),
              error |-> FALSE]

(* get_full_transcript() *)
get_full_transcript(self) ==
    IF self.transcript_df.isNone
    THEN [ret |-> Ret("str", <<>>, NoTranscriptMessage), error |-> FALSE]
    ELSE [ret |-> Ret("str", <<>>, transcript_text(self.transcript_df.rows)),
          error |-> FALSE]

----------------------------------------------------------------------------
(* utils.py: download_audio.  What yt-dlp answers is an input: whether      *)
(* extract_info succeeds, whether the download succeeds, and the           *)
(* information of the video.  calls lists the external calls made.         *)

InfoPool == {[title |-> "Talk", length |-> 59], [title |-> "Stream", length |-> 90000]}

(* self.video_info = {'title': ..., 'length': ..., 'url': youtube_url, ...} *)
video_info_of(info, youtube_url) ==
    [set |-> TRUE, title |-> info.title, length |-> info.length, url |-> youtube_url]

(* download_audio with a fault: a failed download is tried a second time *)
download_audio_retry(self, youtube_url, meta_ok, dl_ok, info) ==
    LET video_id == download_video_id(youtube_url)
    IN  IF video_id.raised # ""
        THEN [self |-> self, raised |-> video_id.raised, path |-> <<>>, calls |-> <<>>]
        ELSE IF ~meta_ok
        THEN [self |-> self, raised |-> "Exception", path |-> <<>>,
              calls |-> <<"extract_info">>]
        ELSE [self |-> [self EXCEPT !.video_info = video_info_of(info, youtube_url)],
              raised |-> IF dl_ok THEN "" ELSE "Exception",
              path |-> IF dl_ok THEN video_id.value \o <<".mp3">> ELSE <<>>,
              calls |-> IF dl_ok THEN <<"extract_info", "download">>
                        ELSE <<"extract_info", "download", "download">>]

(* download_audio(youtube_url): self afterwards, the exception raised ("" for *)
(* none), the path returned, the external calls made                        *)
download_audio(self, youtube_url, meta_ok, dl_ok, info) ==
    LET video_id == download_video_id(youtube_url)
    IN  IF video_id.raised # ""
        THEN [self |-> self, raised |-> video_id.raised, path |-> <<>>, calls |-> <<>>]
        ELSE IF ~meta_ok
        THEN [self |-> self, raised |-> "Exception", path |-> <<>>,
              calls |-> <<"extract_info">>]
        ELSE LET fetched == [self EXCEPT !.video_info = video_info_of(info, youtube_url)]
             IN  IF ~dl_ok
                 THEN [self |-> fetched, raised |-> "Exception", path |-> <<>>,
                       calls |-> <<"extract_info", "download">>]
                 ELSE [self |-> fetched, raised |-> "",
                       path |-> video_id.value \o <<".mp3">>,
                       calls |-> <<"extract_info", "download">>]

----------------------------------------------------------------------------
(* main.py: the "Generate Transcript" button.                              *)

Session(a, generated, info, r) ==
    [agent |-> a, transcript_generated |-> generated, video_info |-> info, run |-> r]

Run(url, outcome, calls, audio) ==
    [url |-> url, outcome |-> outcome, calls |-> calls, audio |-> audio]

(* The body of `if st.button("Generate Transcript"):` from the session      *)
(* (a, generated, vinfo): the session afterwards and the record of the run. *)
main_generate(a, generated, vinfo, youtube_url, model_size, load_ok, meta_ok, dl_ok, tr_ok, info, segments) ==
    IF youtube_url = <<>>
    THEN \* st.warning("Please enter a YouTube URL")
         Session(a, generated, vinfo, Run(youtube_url, "warning", <<>>, <<>>))
    ELSE IF ~load_ok
    THEN \* whisper.load_model raises in __init__: the assignment is not reached
         Session(a, generated, vinfo,
                 Run(youtube_url, "load_failed", <<"load_model">>, <<>>))
    ELSE LET d == download_audio(new_agent(model_size), youtube_url, meta_ok, dl_ok, info)
             calls == <<"load_model">> \o d.calls
         IN  IF d.raised # ""
             THEN \* st.session_state.agent is the new agent already
                  Session(d.self, generated, vinfo,
                          Run(youtube_url,
                              IF d.raised = "IndexError" THEN "IndexError"
                              ELSE IF Len(d.calls) = 1 THEN "metadata_failed"
                              ELSE "download_failed",
                              calls, <<>>))
             ELSE IF ~tr_ok
             THEN Session(d.self, generated, vinfo,
                          Run(youtube_url, "transcribe_failed",
                              calls \o <<"transcribe">>, d.path))
             ELSE LET t == transcribe_audio(d.self, segments)
                  IN  Session(t, TRUE, t.video_info,
                              Run(youtube_url, "ok", calls \o <<"transcribe">>, d.path))

GenUrls ==
    { <<>>,
      <<WATCH, "?", "v=", "ABC">>,
      <<SHORT, "ABC">>,
      <<WATCH>>,
      <<"ABC">> }

SegA == [start |-> 0, end |-> 27, text |-> <<" ", "a", "b", ".">>]
SegB == [start |-> 27, end |-> 50, text |-> <<" ", "A", ".", " ", "b", ".">>]
GenSegments == {<<>>, <<SegA>>, <<SegA, SegB>>}

Generate(youtube_url, model_size, load_ok, meta_ok, dl_ok, tr_ok, info, segments) ==
    LET s == main_generate(ss_agent, ss_transcript_generated, ss_video_info,
                           youtube_url, model_size, load_ok, meta_ok, dl_ok, tr_ok,
                           info, segments)
    IN  /\ ss_agent' = s.agent
        /\ ss_transcript_generated' = s.transcript_generated
        /\ ss_video_info' = s.video_info
        /\ run' = s.run
        /\ UNCHANGED <<agent, res, fmt, emb>>

----------------------------------------------------------------------------
(* The methods of one agent, called in any order.                          *)

Call(op, query, k, segments, r) ==
    [op |-> op, query |-> query, k |-> k, segments |-> segments,
     ret |-> r.ret, error |-> r.error]

(* main() makes a new agent for every run (main.py:48-54), so an agent's    *)
(* transcribe_audio is called while it has no transcript yet.              *)
TranscribeAudio(segments, tr_ok) ==
    /\ agent.transcript_df.isNone
    /\ agent' = IF tr_ok THEN transcribe_audio(agent, segments) ELSE agent
    /\ res' = Call("transcribe_audio", <<>>, 0, segments,
                   [ret |-> Ret(IF tr_ok THEN "dict" ELSE "Exception", <<>>, <<>>),
                    error |-> FALSE])
    /\ UNCHANGED <<session_vars, fmt, emb>>

SearchTranscript(query) ==
    /\ res' = Call("search_transcript", query, 0, <<>>, search_transcript(agent, query))
    /\ UNCHANGED <<session_vars, agent, fmt, emb>>

GetTimestamps(query) ==
    /\ res' = Call("get_timestamps", query, 0, <<>>, get_timestamps(agent, query))
    /\ UNCHANGED <<session_vars, agent, fmt, emb>>

SummarizeTranscript(num_sentences) ==
    /\ res' = Call("summarize_transcript", <<>>, num_sentences, <<>>,
                   summarize_transcript(agent, num_sentences))
    /\ UNCHANGED <<session_vars, agent, fmt, emb>>

GetFullTranscript ==
    /\ res' = Call("get_full_transcript", <<>>, 0, <<>>, get_full_transcript(agent))
    /\ UNCHANGED <<session_vars, agent, fmt, emb>>

----------------------------------------------------------------------------
(* The two helpers, applied to their inputs.                               *)

Durations ==
    {h * 3600 + m * 60 + s : h \in 0..MaxHours, m \in {0, 1, 59}, s \in {0, 1, 59}}

FormatTime(seconds) ==
    /\ fmt' = [called |-> TRUE, seconds |-> seconds, ret |-> format_time(seconds)]
    /\ UNCHANGED <<session_vars, store_vars, emb>>

CreateEmbedUrl(youtube_url) ==
    /\ emb' = [called |-> TRUE, url |-> youtube_url,
               ret |-> create_youtube_embed_url(youtube_url)]
    /\ UNCHANGED <<session_vars, store_vars, fmt>>

----------------------------------------------------------------------------

Init ==
    /\ ss_agent = NoAgent
    /\ ss_transcript_generated = FALSE
    /\ ss_video_info = EmptyDict
    /\ run = Run(<<>>, "none", <<>>, <<>>)
    /\ agent = new_agent("base")
    /\ res = Call("none", <<>>, 0, <<>>, [ret |-> Ret("None", <<>>, <<>>), error |-> FALSE])
    /\ fmt = [called |-> FALSE, seconds |-> 0, ret |-> <<>>]
    /\ emb = [called |-> FALSE, url |-> <<>>, ret |-> None]

Next ==
    \E youtube_url \in GenUrls, model_size \in ModelSizes,
       load_ok, meta_ok, dl_ok, tr_ok \in BOOLEAN,
       info \in InfoPool, segments \in GenSegments :
        Generate(youtube_url, model_size, load_ok, meta_ok, dl_ok, tr_ok, info, segments)

(* The session: any sequence of clicks on "Generate Transcript". *)
Spec == Init /\ [][Next]_vars

NextStore ==
    \/ \E segments \in Transcriptions, tr_ok \in BOOLEAN : TranscribeAudio(segments, tr_ok)
    \/ \E query \in Queries : SearchTranscript(query)
    \/ \E query \in Queries : GetTimestamps(query)
    \/ \E num_sentences \in 1..MaxK : SummarizeTranscript(num_sentences)
    \/ GetFullTranscript

(* One agent: any sequence of calls of its methods. *)
SpecStore == Init /\ [][NextStore]_vars

NextFormat == \E seconds \in Durations : FormatTime(seconds)

SpecFormat == Init /\ [][NextFormat]_vars

NextEmbed == \E youtube_url \in Urls : CreateEmbedUrl(youtube_url)

SpecEmbed == Init /\ [][NextEmbed]_vars

----------------------------------------------------------------------------
(* The claims.                                                             *)

FailedOutcomes ==
    {"load_failed", "IndexError", "metadata_failed", "download_failed", "transcribe_failed"}

(* C1: a run of Generate that fails in the model-load, download or         *)
(* transcribe stage leaves the session's agent (and so its transcript),    *)
(* transcript_generated and video_info exactly as they were before the run, *)
(* and the session's transcript and video_info change only in a run that   *)
(* completed transcription.                                                *)
C1_NoPartialStateOnFailure ==
    [][ /\ run'.outcome \in FailedOutcomes =>
              /\ ss_agent' = ss_agent
              /\ ss_transcript_generated' = ss_transcript_generated
              /\ ss_video_info' = ss_video_info
        /\ (ss_agent'.transcript_df # ss_agent.transcript_df
              \/ ss_video_info' # ss_video_info) => run'.outcome = "ok"
      ]_vars

PipelineOrder == <<"load_model", "extract_info", "download", "transcribe">>

IsPrefix(s, t) == Len(s) <= Len(t) /\ s = SubSeq(t, 1, Len(s))

Occurrences(s, x) == Cardinality({i \in 1..Len(s) : s[i] = x})

(* C2: in one Generate action every external call is made at most once, in  *)
(* the order load model, fetch metadata, download audio, transcribe; a run *)
(* that succeeds made each exactly once; a run whose download (or an       *)
(* earlier step) failed never calls transcribe, and transcribe is only     *)
(* ever given the path a completed download returned.                      *)
C2_SingleAttemptInOrder ==
    /\ IsPrefix(run.calls, PipelineOrder)
    /\ \A c \in {"load_model", "extract_info", "download", "transcribe"} :
           Occurrences(run.calls, c) <= 1
    /\ run.outcome = "ok" => run.calls = PipelineOrder
    /\ run.outcome \in {"IndexError", "metadata_failed", "download_failed"} =>
           /\ Occurrences(run.calls, "transcribe") = 0
           /\ run.audio = <<>>
    /\ run.outcome = "download_failed" => Occurrences(run.calls, "download") = 1
    /\ Occurrences(run.calls, "transcribe") = 1 =>
           /\ Occurrences(run.calls, "download") = 1
           /\ run.audio # <<>>

(* C2's case: a run whose download failed, after one fetch and one download *)
C2_Witness ==
    /\ run.outcome = "download_failed"
    /\ run.calls = <<"load_model", "extract_info", "download">>

(* What a method returns when a transcript exists and nothing matches. *)
EmptyResult(op) ==
    IF op = "search_transcript" THEN Ret("DataFrame", <<>>, <<>>) ELSE Ret("list", <<>>, <<>>)

(* C3: search_transcript and get_timestamps on an agent that has no        *)
(* transcript report the usage error, and what the caller gets back is not *)
(* what it gets for a query that matches nothing in a transcript.          *)
C3_NoTranscriptDistinctFromNoMatch ==
    (agent.transcript_df.isNone /\ res.op \in {"search_transcript", "get_timestamps"}) =>
        /\ res.error
        /\ res.ret # EmptyResult(res.op)

(* C4: on a transcript of N >= 0 segments, search_transcript(q) returns,   *)
(* without an error, exactly the segments whose text has a case-insensitive *)
(* match of q, in stored order; the empty sequence when none has.          *)
C4_SearchReturnsMatchesInOrder ==
    (~agent.transcript_df.isNone /\ res.op = "search_transcript") =>
        res.ret = Ret("DataFrame",
                      SelectSeq(agent.transcript_df.rows,
                                LAMBDA row : re_search(res.query, row.text)),
                      <<>>)

C5_Sentences(rows) == sent_tokenize(Join([i \in 1..Len(rows) |-> rows[i].text], <<" ">>))

C5_MinOf(a, b) == IF a <= b THEN a ELSE b

(* C5: on any transcript, summarize_transcript(k), k >= 1, returns the     *)
(* first min(k, |S|) sentences of the space-joined text, in order, joined  *)
(* by one space.                                                           *)
C5_SummaryIsSentencePrefix ==
    (~agent.transcript_df.isNone /\ res.op = "summarize_transcript") =>
        LET S == C5_Sentences(agent.transcript_df.rows)
        IN  res.ret = Ret("str", <<>>, Join(SubSeq(S, 1, C5_MinOf(res.k, Len(S))), <<" ">>))

(* The format of the specification: MM:SS below an hour, else HH:MM:SS. *)
C6_Format(s) ==
    IF s < 3600
    THEN Pad2(s \div 60) \o <<":">> \o Pad2(s % 60)
    ELSE Pad2(s \div 3600) \o <<":">> \o Pad2((s % 3600) \div 60) \o <<":">> \o Pad2(s % 60)

(* C6: format_time(s) is MM:SS with MM = s div 60, SS = s mod 60 when       *)
(* s < 3600, and HH:MM:SS with HH = s div 3600 otherwise, also from 86400  *)
(* seconds on.                                                             *)
C6_FormatTimeAsSpecified ==
    fmt.called => fmt.ret = C6_Format(fmt.seconds)

C7_Embed(id) == IF id = <<>> THEN None ELSE Value(<<"https://www.youtube.com/embed/">> \o id)

C7_UpTo(s, stop) == IF FirstIndex(s, <<stop>>) = 0 THEN s ELSE SubSeq(s, 1, FirstIndex(s, <<stop>>) - 1)

C7_After(s, mark) == SubSeq(s, FirstIndex(s, <<mark>>) + 1, Len(s))

(* C7: create_youtube_embed_url never raises; a watch URL with a v=        *)
(* parameter gives the value up to the next & or the end, a short link the *)
(* path segment up to the next ? or the end, and every other URL, a watch  *)
(* URL with no v= or with nothing after v= included, gives None.           *)
C7_EmbedNeverRaises ==
    emb.called =>
        /\ emb.ret.raised = ""
        /\ IF Contains(emb.url, <<WATCH>>)
           THEN IF Contains(emb.url, <<"v=">>)
                THEN emb.ret = C7_Embed(C7_UpTo(C7_After(emb.url, "v="), "&"))
                ELSE emb.ret = None
           ELSE IF Contains(emb.url, <<SHORT>>)
           THEN emb.ret = C7_Embed(C7_UpTo(C7_After(emb.url, SHORT), "?"))
           ELSE Contains(emb.url, <<"v=">>) \/ emb.ret = None

(* The lines of a text: what stands before each line feed, and what follows *)
(* the last one when that is not empty.                                    *)
C8_Lines(text) ==
    LET p == Split(text, <<"\n">>)
    IN  IF p[Len(p)] = <<>> THEN SubSeq(p, 1, Len(p) - 1) ELSE p

(* C8: on a transcript of N segments get_full_transcript returns N lines,  *)
(* the i-th being "[start_str] text" of the i-th stored segment.           *)
C8_FullTextOneLinePerSegment ==
    (~agent.transcript_df.isNone /\ res.op = "get_full_transcript") =>
        LET rows == agent.transcript_df.rows
            lines == C8_Lines(res.ret.text)
        IN  /\ res.ret.kind = "str"
            /\ Len(lines) = Len(rows)
            /\ \A i \in 1..Len(rows) :
                   lines[i] = <<"[">> \o rows[i].start_str \o <<"]", " ">> \o rows[i].text

(* C8's case: the full text of a transcript of two segments *)
C8_Witness ==
    /\ res.op = "get_full_transcript"
    /\ ~agent.transcript_df.isNone
    /\ Len(agent.transcript_df.rows) = 2

(* The display of n whole seconds as H:MM:SS, the hours not padded, after   *)
(* "1 day, " or "N days, " from 86400 seconds on.                          *)
C9_Display(n) ==
    LET d == n \div 86400
        r == n - d * 86400
        h == r \div 3600
        m == (r - h * 3600) \div 60
        sec == r - h * 3600 - m * 60
        hms == Digits(h) \o <<":">> \o Pad2(m) \o <<":">> \o Pad2(sec)
    IN  IF d = 0 THEN hms
        ELSE IF d = 1 THEN <<"1", " ", "d", "a", "y", ",", " ">> \o hms
        ELSE Digits(d) \o <<" ", "d", "a", "y", "s", ",", " ">> \o hms

C9_Floor(tenths) == (tenths - (tenths % 10)) \div 10

C9_Transcribed == res.op = "transcribe_audio" /\ res.ret.kind = "dict"

(* C9, amended: the transcript built from the engine's segments has one     *)
(* stored segment per segment, in the engine's order, with the text        *)
(* trimmed, and each start_str is the floored start in seconds displayed   *)
(* as H:MM:SS (after "N day(s), " from 86400 seconds on).                  *)
C9_StartDisplayIsTimedelta ==
    C9_Transcribed =>
        LET rows == agent.transcript_df.rows
        IN  /\ Len(rows) = Len(res.segments)
            /\ \A i \in 1..Len(rows) :
                   /\ rows[i].start = res.segments[i].start
                   /\ rows[i].text = Strip(res.segments[i].text)
                   /\ rows[i].start_str = C9_Display(C9_Floor(res.segments[i].start))

(* C9 as stated: each start_str is the specification's format (MM:SS below *)
(* an hour) of the floored start, the segments in the engine's order.      *)
C9_StartDisplayIsFormatTime ==
    C9_Transcribed =>
        LET rows == agent.transcript_df.rows
        IN  /\ Len(rows) = Len(res.segments)
            /\ \A i \in 1..Len(rows) :
                   /\ rows[i].start = res.segments[i].start
                   /\ rows[i].start_str = C6_Format(C9_Floor(res.segments[i].start))

(* C9's case: a transcript of two segments, the first starting below an    *)
(* hour at a fraction of a second                                          *)
C9_Witness ==
    /\ C9_Transcribed
    /\ Len(agent.transcript_df.rows) = 2
    /\ agent.transcript_df.rows[1].start = 27
    /\ agent.transcript_df.rows[1].start_str = <<"0", ":", "0", "0", ":", "0", "2">>

(* C10: whenever transcript_generated is true the session's agent exists   *)
(* and holds a transcript, and the session's video_info is that agent's.   *)
C10_GeneratedImpliesTranscript ==
    ss_transcript_generated =>
        /\ ~ss_agent.isNone
        /\ ~ss_agent.transcript_df.isNone
        /\ ss_video_info = ss_agent.video_info

====
